---- MODULE Spec2Model ----
(***************************************************************************)
(* Model of the STCA text-to-image red-teaming pipeline:                   *)
(*   image_generation.py  (index allocator, download, generation driver)   *)
(*   image_safety.py      (classifier client, safety driver)               *)
(*   experiment.py        (run_model, main)                                *)
(***************************************************************************)
EXTENDS Integers, Sequences, FiniteSets, TLC

(***************************************************************************)
(* Bounds of the model.                                                    *)
(***************************************************************************)
\* prompt items handed to generate_images in one behaviour, over all its calls
MaxPrompts == 2
\* the same, where the generation driver is called on its own
MaxBatch == 3
\* number of generate_images invocations in one behaviour
MaxGenRuns == 2
\* number of img_safety_check invocations in one behaviour
MaxSafetyRuns == 2
\* number of external file deletions in one behaviour
MaxDeletes == 1

Absent == "absent"

Min(a, b) == IF a < b THEN a ELSE b

RECURSIVE SeqToSet(_)
SeqToSet(s) == IF s = <<>> THEN {} ELSE {Head(s)} \cup SeqToSet(Tail(s))

(***************************************************************************)
(* File names.  A name is its three parts: the text before the digits, the *)
(* digits (a sequence of 0..9) and the text after them, so that parsing    *)
(* (regex + int()) and formatting (f"image_{i}.png") are distinct          *)
(* computations.                                                           *)
(***************************************************************************)
FileName(stem, digits, ext) == [stem |-> stem, digits |-> digits, ext |-> ext]

\* re.compile(r'^image_(\d+)\.png$').match(f)
PatternMatches(f) == f.stem = "image_" /\ Len(f.digits) >= 1 /\ f.ext = ".png"

\* int(pattern.match(f).group(1))
RECURSIVE ParseInt(_)
ParseInt(ds) ==
    IF ds = <<>> THEN 0
    ELSE 10 * ParseInt(SubSeq(ds, 1, Len(ds) - 1)) + ds[Len(ds)]

\* str(i) inside the f-string: the decimal digits of i, no leading zero
RECURSIVE FormatInt(_)
FormatInt(i) == IF i < 10 THEN <<i>> ELSE Append(FormatInt(i \div 10), i % 10)

\* f"image_{i}.png"
ImageName(i) == FileName("image_", FormatInt(i), ".png")

\* existing_image_set(directory, "index")
existing_image_set_index(listing) ==
    {ParseInt(f.digits) : f \in {g \in listing : PatternMatches(g)}}

\* existing_image_set(directory, "name")
existing_image_set_name(listing) == {f \in listing : PatternMatches(f)}

\* the while loop of find_available_image_index, from candidate i
RECURSIVE find_from(_, _)
find_from(listing, i) ==
    IF i \in existing_image_set_index(listing) THEN find_from(listing, i + 1) ELSE i

\* a plausible slip: the candidate looked up among the names, where no integer is
\* ever found, so that the loop ends at once
find_available_image_index_among_names(listing) == 0

\* a plausible slip: one past the largest index instead of the first gap
find_available_image_index_next_after_max(listing) ==
    LET S == existing_image_set_index(listing)
    IN  IF S = {} THEN 0 ELSE (CHOOSE m \in S : \A n \in S : n <= m) + 1

find_available_image_index(listing) == find_from(listing, 0)

(***************************************************************************)
(* Inputs.                                                                 *)
(***************************************************************************)
Dirs == {"OPENAI_STCA", "OPENAI_no_STCA"}
Models == {"OPENAI", "SD", "BFL"}
\* the processes that may call generate_images; more than one is active only where
\* a specification says so
Drivers == {1, 2}

\* a prompt item as json.load yields it: a str, a dict (with its "prompt" and
\* "soft" keys, Absent when the key is missing) or a value of another type
StrItem(text) == [type |-> "str", prompt |-> text, soft |-> Absent]
DictItem(prompt, soft) == [type |-> "dict", prompt |-> prompt, soft |-> soft]
OtherItem == [type |-> "int", prompt |-> Absent, soft |-> Absent]

PromptItems ==
    {StrItem("B"), DictItem("A", "A-softened"), DictItem(Absent, Absent), OtherItem}

\* what the provider does with one request
Causes == {"ok", "moderation", "transport"}
\* what requests.get does with one download
Downloads == {"200", "404", "ConnectionError"}

NoName == FileName("", <<>>, "")
NoInfo == [prompt |-> Absent, soft |-> Absent, image_url |-> Absent,
           image_name |-> NoName, unsafe |-> Absent]
NoLedger == [exists |-> FALSE, entries |-> <<>>]

VARIABLES
    files,       \* files[dir]: names of the files in the directory
    ledger,      \* ledger[dir]: prompts.json of the directory
    quarantine,  \* quarantine[dir]: names of the files in <dir>/unsafe
    classifier,  \* classifier[dir][name]: the stubbed classifier's answer for a file
    gen,         \* gen[d]: locals of one generate_images call
    safety,      \* locals of the img_safety_check call
    main,        \* locals of experiment.main
    alloc,       \* last value returned by find_available_image_index
    env          \* counters that bound the environment

vars == <<files, ledger, quarantine, classifier, gen, safety, main, alloc, env>>

(***************************************************************************)
(* image_generation.py                                                     *)
(***************************************************************************)
\* lines 96-104: does the item resolve to a prompt
IsPromptItem(item) ==
    \/ item.type = "str"
    \/ item.type = "dict" /\ item.prompt # Absent

\* lines 99 and 102: the image_info of a resolved item
ImageInfoOf(item) == [NoInfo EXCEPT !.prompt = item.prompt, !.soft = item.soft]

\* class of the exception the provider call raises for a model
RaisedClass(model) == IF model = "OPENAI" THEN "OpenAIError" ELSE "ReplicateError"

\* line 151: except OpenAIError
CaughtByDriver(class) == class = "OpenAIError"

\* a plausible slip: reconciliation that keeps every entry
Reconcile_keep_all(entries, listing) == entries

\* line 82: drop the entries whose image is not in the directory
Reconcile(entries, listing) ==
    SelectSeq(entries, LAMBDA x : x.image_name \in existing_image_set_name(listing))

\* lines 51-58: download_image
download_image(listing, status, filename) ==
    IF status = "200" THEN listing \cup {filename} ELSE listing

\* line 177
GenReturn(num_generated, n) == [generated |-> num_generated, rejected |-> n - num_generated]

\* The batch is read one item at a time: a call is given len(prompts), and each
\* iteration is given prompts[i].
GenIdle ==
    [pc |-> "idle", directory |-> "OPENAI_STCA", model |-> "OPENAI", len_prompts |-> 0,
     i |-> 0, image_info_list |-> <<>>, num_generated |-> 0, image_info |-> NoInfo,
     result |-> GenReturn(0, 0),
     \* what happened to the run, for stating the claims
     malformed |-> 0, moderation |-> 0, transport |-> 0, abort |-> "none",
     ledger0 |-> NoLedger, files0 |-> {}, deleted |-> FALSE,
     written |-> {}, overwrote |-> FALSE, shared |-> FALSE, resumed |-> FALSE]

Running(d) == gen[d].pc \in {"loop", "download"}

\* A call that has ended: its locals are gone; what is left is its arguments, the
\* value it returned (line 177) and what happened to it.
Ended(g, pc, abort) ==
    [GenIdle EXCEPT
        !.pc = pc, !.directory = g.directory, !.len_prompts = g.len_prompts,
        !.result = IF pc = "returned" THEN GenReturn(g.num_generated, g.len_prompts)
                   ELSE GenReturn(0, 0),
        !.malformed = g.malformed, !.moderation = g.moderation,
        !.transport = g.transport, !.abort = abort,
        !.ledger0 = g.ledger0, !.files0 = g.files0, !.deleted = g.deleted,
        !.written = g.written, !.overwrote = g.overwrote, !.shared = g.shared,
        !.resumed = g.resumed]

\* env with the directory marked as changed since its last safety pass began
Touch(dir) == [env EXCEPT !.touched = @ \cup {dir}]

\* another call is at work on the directory
OthersOn(d, dir) == {o \in Drivers \ {d} : Running(o) /\ gen[o].directory = dir}

\* lines 69-90
GenStart(d, dir, model, n) ==
    /\ ~Running(d)
    /\ gen' = [o \in Drivers |->
            IF o = d
            THEN [GenIdle EXCEPT
                    !.pc = "loop", !.directory = dir, !.model = model,
                    !.len_prompts = n,
                    !.image_info_list = Reconcile(ledger[dir].entries, files[dir]),
                    !.ledger0 = ledger[dir], !.files0 = files[dir],
                    !.shared = OthersOn(d, dir) # {},
                    !.resumed = gen[d].pc = "raised" /\ gen[d].directory = dir]
            ELSE IF o \in OthersOn(d, dir) THEN [gen[o] EXCEPT !.shared = TRUE]
            ELSE gen[o]]
    /\ env' = [env EXCEPT !.genRuns = @ + 1, !.prompts = @ + n]
    /\ UNCHANGED <<files, ledger, quarantine, classifier, safety, main, alloc>>

\* lines 92-146 and 151-167: one iteration up to the download
GenRequest(d, item, cause) ==
    LET g == gen[d]
    IN  /\ g.pc = "loop"
        /\ g.i < g.len_prompts
        /\ IF ~IsPromptItem(item)
           THEN gen' = [gen EXCEPT ![d].i = @ + 1, ![d].malformed = @ + 1]
           ELSE   IF cause = "ok"
                  THEN gen' = [gen EXCEPT
                          ![d].pc = "download",
                          ![d].image_info =
                              [ImageInfoOf(item) EXCEPT
                                 !.image_url = "url",
                                 !.image_name =
                                     ImageName(find_available_image_index(files[g.directory]))]]
                  ELSE IF CaughtByDriver(RaisedClass(g.model))
                  THEN gen' = [gen EXCEPT
                          ![d].i = @ + 1,
                          ![d].moderation = IF cause = "moderation" THEN @ + 1 ELSE @,
                          ![d].transport = IF cause = "transport" THEN @ + 1 ELSE @]
                  ELSE gen' = [gen EXCEPT ![d] = Ended(g, "raised", cause)]
        /\ UNCHANGED <<files, ledger, quarantine, classifier, safety, main, alloc, env>>

\* a plausible slip: the ledger saved after every item
LedgerAfterItem_saved(on_disk, image_info_list) ==
    [exists |-> TRUE, entries |-> image_info_list]

\* lines 157-162: the else branch appends to the list in memory; prompts.json is
\* not opened before line 174
LedgerAfterItem(on_disk, image_info_list) == on_disk

\* the stub's answers for a directory without the one for a file that was rewritten
Forget(answers, f) == [n \in DOMAIN answers \ {f} |-> answers[n]]

\* lines 148 and 157-162: the download and the else branch
GenDownload(d, status) ==
    LET g == gen[d]
        dir == g.directory
    IN  /\ g.pc = "download"
        /\   IF status = "ConnectionError"
             THEN /\ gen' = [gen EXCEPT ![d] = Ended(g, "raised", "download")]
                  /\ UNCHANGED <<files, ledger, classifier, env>>
             ELSE /\ files' = [files EXCEPT
                                 ![dir] = download_image(@, status, g.image_info.image_name)]
                  /\ classifier' = [classifier EXCEPT
                        ![dir] = IF status = "200" THEN Forget(@, g.image_info.image_name)
                                 ELSE @]
                  /\ ledger' = [ledger EXCEPT
                        ![dir] = LedgerAfterItem(@, Append(g.image_info_list, g.image_info))]
                  /\ gen' = [gen EXCEPT
                        ![d].pc = "loop",
                        ![d].i = @ + 1,
                        ![d].num_generated = @ + 1,
                        ![d].image_info_list = Append(@, g.image_info),
                        ![d].image_info = NoInfo,
                        ![d].written =
                            IF status = "200" THEN @ \cup {g.image_info.image_name} ELSE @,
                        ![d].overwrote =
                            @ \/ (status = "200" /\ g.image_info.image_name \in files[dir])]
                  /\ env' = IF status = "200" THEN Touch(dir) ELSE env
        /\ UNCHANGED <<quarantine, safety, main, alloc>>

\* lines 173-177
GenFinish(d) ==
    LET g == gen[d]
    IN  /\ g.pc = "loop"
        /\ g.i = g.len_prompts
        /\ ledger' = [ledger EXCEPT
                        ![g.directory] = [exists |-> TRUE, entries |-> g.image_info_list]]
        /\ gen' = [gen EXCEPT ![d] = Ended(g, "returned", "none")]
        /\ env' = IF ledger' # ledger THEN Touch(g.directory) ELSE env
        /\ UNCHANGED <<files, quarantine, classifier, safety, main, alloc>>

\* someone removes an image file from a directory
ExternalDelete(dir, f) ==
    /\ f \in files[dir]
    /\ files' = [files EXCEPT ![dir] = @ \ {f}]
    /\ gen' = [d \in Drivers |->
                 IF gen[d].pc # "idle" /\ gen[d].directory = dir
                 THEN [gen[d] EXCEPT !.deleted = TRUE] ELSE gen[d]]
    /\ env' = [Touch(dir) EXCEPT !.deletes = @ + 1]
    /\ UNCHANGED <<ledger, quarantine, classifier, safety, main, alloc>>

\* someone removes prompts.json from a directory
ExternalDeleteLedger(dir) ==
    /\ ledger[dir].exists
    /\ ledger' = [ledger EXCEPT ![dir] = NoLedger]
    /\ env' = [Touch(dir) EXCEPT !.deletes = @ + 1]
    /\ UNCHANGED <<files, quarantine, classifier, gen, safety, main, alloc>>

(***************************************************************************)
(* image_safety.py                                                         *)
(***************************************************************************)
\* the texts the classifier answers with, as sequences of characters
Responses ==
    { <<"Y", "e", "s", ".">>,
      <<"n", "o">>,
      <<"m", "a", "y", "b", "e", ",", " ", "i", "t">> }

\* one classifier call: it raises OpenAIError or returns a message content
Answers ==
    {[raised |-> TRUE, content |-> <<>>]}
        \cup {[raised |-> FALSE, content |-> r] : r \in Responses}

StripChars == {".", ",", ";", "!", "?", " "}

\* content[:3]
Take3(s) == SubSeq(s, 1, Min(3, Len(s)))

RECURSIVE LStrip(_)
LStrip(s) == IF s # <<>> /\ Head(s) \in StripChars THEN LStrip(Tail(s)) ELSE s

RECURSIVE RStrip(_)
RStrip(s) ==
    IF s # <<>> /\ s[Len(s)] \in StripChars THEN RStrip(SubSeq(s, 1, Len(s) - 1)) ELSE s

\* .strip(".,;!? ")
Strip(s) == RStrip(LStrip(s))

LowerChar(c) ==
    CASE c = "Y" -> "y" [] c = "E" -> "e" [] c = "S" -> "s"
      [] c = "N" -> "n" [] c = "O" -> "o" [] c = "M" -> "m"
      [] OTHER -> c

\* .lower()
Lower(s) == [k \in 1..Len(s) |-> LowerChar(s[k])]

\* lines 50-55: "True", "False" or "None"
is_img_unsafe(content) ==
    LET processed_response == Lower(Strip(Take3(content)))
    IN  IF processed_response \notin {<<"y", "e", "s">>, <<"n", "o">>} THEN "None"
        ELSE IF processed_response = <<"y", "e", "s">> THEN "True" ELSE "False"

\* a plausible slip: an indeterminate verdict let through
RaisesOnVerdict_never(if_unsafe) == FALSE

\* lines 95-97: if if_unsafe is None: raise ValueError
RaisesOnVerdict(if_unsafe) == if_unsafe = "None"

\* a plausible slip: a clause forgotten
SafetyCatches_no_FileNotFound(exc) == exc \in {"OpenAIError", "ValueError"}

\* lines 110-115: the except clauses of the loop
SafetyCatches(exc) == exc \in {"OpenAIError", "FileNotFoundError", "ValueError"}

\* a plausible slip: totals kept from the previous call
SafetyAccounting_accumulate(s) ==
    [cnt_unsafe |-> s.cnt_unsafe, cnt_safe |-> s.cnt_safe, unsafe_image_names |-> <<>>]

\* lines 79-82: the accounting at the start of a call (s: the previous call's locals)
SafetyAccounting(s) == [cnt_unsafe |-> 0, cnt_safe |-> 0, unsafe_image_names |-> <<>>]

\* a plausible slip: the subdirectory created only when missing, its content kept
ResetUnsafeDir_keep(copies) == copies

\* lines 72-77: shutil.rmtree, then os.makedirs
ResetUnsafeDir(copies) == {}

\* lines 120-127: copy the unsafe images that are files of the directory
CopyUnsafe(copies, unsafe_image_names, listing) ==
    copies \cup {n \in SeqToSet(unsafe_image_names) : n \in listing}

\* line 131, and line 70 (None)
SafetyReturn(cnt_unsafe, cnt_safe) ==
    [none |-> FALSE, unsafe |-> cnt_unsafe, safe |-> cnt_safe]
SafetyReturnNone == [none |-> TRUE, unsafe |-> 0, safe |-> 0]

NoPrev == [valid |-> FALSE, result |-> SafetyReturnNone, image_info_list |-> <<>>]

SafetyIdle ==
    [pc |-> "idle", directory |-> "OPENAI_STCA", image_info_list |-> <<>>, idx |-> 0,
     cnt_unsafe |-> 0, cnt_safe |-> 0, unsafe_image_names |-> <<>>,
     result |-> SafetyReturnNone,
     \* what happened to the run, for stating the claims
     missing |-> 0, indeterminate |-> 0, errors |-> 0, said_unsafe |-> 0, said_safe |-> 0,
     prev |-> NoPrev, quarantine0 |-> {}]

\* lines 64-87
SafetyStart(dir) ==
    LET acc == SafetyAccounting(safety)
        prev == IF /\ safety.pc = "returned" /\ safety.directory = dir
                   /\ ~safety.result.none /\ dir \notin env.touched
                THEN [valid |-> TRUE, result |-> safety.result,
                      image_info_list |-> safety.image_info_list]
                ELSE NoPrev
    IN  /\ safety.pc # "loop"
        /\ env' = [env EXCEPT !.safetyRuns = @ + 1, !.touched = @ \ {dir}]
        /\ IF ~ledger[dir].exists
           THEN /\ safety' = [SafetyIdle EXCEPT !.pc = "returned", !.directory = dir,
                                                !.result = SafetyReturnNone]
                /\ UNCHANGED quarantine
           ELSE /\ safety' = [SafetyIdle EXCEPT
                     !.pc = "loop", !.directory = dir,
                     !.image_info_list = ledger[dir].entries,
                     !.cnt_unsafe = acc.cnt_unsafe, !.cnt_safe = acc.cnt_safe,
                     !.unsafe_image_names = acc.unsafe_image_names,
                     !.prev = prev, !.quarantine0 = quarantine[dir]]
                /\ quarantine' = [quarantine EXCEPT ![dir] = ResetUnsafeDir(@)]
        /\ UNCHANGED <<files, ledger, classifier, gen, main, alloc>>

\* lines 89-117: one iteration.  Every entry of a ledger written by
\* generate_images has an image_name, so line 92 does not raise.
SafetyStep(answer) ==
    LET s == safety
        dir == s.directory
        k == s.idx + 1
        name == s.image_info_list[k].image_name
    IN  /\ s.pc = "loop"
        /\ s.idx < Len(s.image_info_list)
        /\   LET present == name \in files[dir]
                 if_unsafe == is_img_unsafe(answer.content)
                 exc == IF ~present THEN "FileNotFoundError"
                        ELSE IF answer.raised THEN "OpenAIError"
                        ELSE IF RaisesOnVerdict(if_unsafe) THEN "ValueError"
                        ELSE "none"
                 seen == [s EXCEPT
                            !.idx = k,
                            !.missing = IF ~present THEN @ + 1 ELSE @,
                            !.errors = IF present /\ answer.raised THEN @ + 1 ELSE @,
                            !.indeterminate =
                                IF present /\ ~answer.raised /\ if_unsafe = "None"
                                THEN @ + 1 ELSE @,
                            !.said_unsafe =
                                IF present /\ ~answer.raised /\ if_unsafe = "True"
                                THEN @ + 1 ELSE @,
                            !.said_safe =
                                IF present /\ ~answer.raised /\ if_unsafe = "False"
                                THEN @ + 1 ELSE @]
             IN  /\ classifier' = IF present
                                  THEN [classifier EXCEPT ![dir] = (name :> answer) @@ @]
                                  ELSE classifier
                 /\ safety' =
                      IF exc = "none"
                      THEN [seen EXCEPT
                              !.image_info_list[k].unsafe = if_unsafe,
                              !.cnt_unsafe = IF if_unsafe = "True" THEN @ + 1 ELSE @,
                              !.cnt_safe = IF if_unsafe = "True" THEN @ ELSE @ + 1,
                              !.unsafe_image_names =
                                  IF if_unsafe = "True" THEN Append(@, name) ELSE @]
                      ELSE IF SafetyCatches(exc) THEN seen
                      ELSE [seen EXCEPT !.pc = "raised"]
        /\ UNCHANGED <<files, ledger, quarantine, gen, main, alloc, env>>

\* lines 119-131
SafetyFinish ==
    LET s == safety
        dir == s.directory
    IN  /\ s.pc = "loop"
        /\ s.idx = Len(s.image_info_list)
        /\ quarantine' = [quarantine EXCEPT
              ![dir] = CopyUnsafe(@, s.unsafe_image_names, files[dir])]
        /\ safety' = [s EXCEPT !.pc = "returned",
                               !.result = SafetyReturn(s.cnt_unsafe, s.cnt_safe)]
        /\ UNCHANGED <<files, ledger, classifier, gen, main, alloc, env>>

(***************************************************************************)
(* experiment.py                                                           *)
(***************************************************************************)
\* --num, default 10 (line 158)
DefaultNum == 10

\* a cell's result before it is computed
NoRatios == [res |-> <<0, 0, 0>>, sum |-> 0]

NoCorpus == [exists |-> FALSE, items |-> <<>>]

MainIdle ==
    [pc |-> "idle", corpus |-> NoCorpus, prompts_STCA |-> <<>>, prompts_no_STCA |-> <<>>,
     arm |-> 1, STCA_run |-> NoRatios, no_STCA_run |-> NoRatios,
     results_json |-> FALSE, error |-> "none",
     \* the stubs of the run: the prompt texts the provider refuses, the status of
     \* every download, the classifier's answer for every image
     refused |-> {}, status |-> "200", answer |-> [raised |-> TRUE, content |-> <<>>]]

\* line 108: json.load(f)[:args.num]
TakeNum(items, num) == SubSeq(items, 1, Min(num, Len(items)))

\* line 113: d.pop('soft', None), and line 119: d.pop('soft'), need a dict
HasPop(item) == item.type = "dict"

\* lines 112-113
WithoutSoft(d) == [d EXCEPT !.soft = Absent]

\* lines 117-119
SoftAsPrompt(d) ==
    IF d.soft # Absent THEN [d EXCEPT !.prompt = d.soft, !.soft = Absent] ELSE d

\* line 126 and line 130: the directory and the prompts of an arm
ArmDir(arm) == IF arm = 1 THEN "OPENAI_STCA" ELSE "OPENAI_no_STCA"
ArmPrompts(arm) == IF arm = 1 THEN main.prompts_STCA ELSE main.prompts_no_STCA

\* lines 95-123
MainLoad ==
    LET prompts == TakeNum(main.corpus.items, DefaultNum)
    IN  /\ main.pc = "start"
        /\ files' = [dir \in Dirs |-> {}]
        /\ ledger' = [dir \in Dirs |-> NoLedger]
        /\ quarantine' = [dir \in Dirs |-> {}]
        /\ main' =
             IF ~main.corpus.exists THEN [main EXCEPT !.pc = "returned"]
             ELSE IF \E k \in 1..Len(prompts) : ~HasPop(prompts[k])
             THEN [main EXCEPT !.pc = "raised", !.error = "AttributeError"]
             ELSE [main EXCEPT
                     !.pc = "run",
                     !.prompts_STCA = [k \in 1..Len(prompts) |-> WithoutSoft(prompts[k])],
                     !.prompts_no_STCA =
                         [k \in 1..Len(prompts) |-> SoftAsPrompt(prompts[k])]]
        /\ UNCHANGED <<classifier, gen, safety, alloc, env>>

\* line 22: the call of generate_images
MainGenerate ==
    /\ main.pc = "run"
    /\ gen[1].pc = "idle" \/ (~Running(1) /\ gen[1].directory # ArmDir(main.arm))
    /\ GenStart(1, ArmDir(main.arm), "OPENAI", Len(ArmPrompts(main.arm)))

\* the iterations of that call, with the stubbed provider and downloads
MainRequest ==
    /\ main.pc = "run"
    /\ gen[1].pc = "loop" /\ gen[1].i < gen[1].len_prompts
    /\ LET item == ArmPrompts(main.arm)[gen[1].i + 1]
       IN  GenRequest(1, item, IF item.prompt \in main.refused THEN "moderation" ELSE "ok")

MainDownload == main.pc = "run" /\ GenDownload(1, main.status)

MainGenFinish == main.pc = "run" /\ GenFinish(1)

\* line 22: an exception that leaves generate_images leaves run_model and main
MainPropagate ==
    /\ main.pc = "run"
    /\ gen[1].pc = "raised" /\ gen[1].directory = ArmDir(main.arm)
    /\ main' = [main EXCEPT !.pc = "raised", !.error = "ConnectionError"]
    /\ UNCHANGED <<files, ledger, quarantine, classifier, gen, safety, alloc, env>>

\* line 24: the call of img_safety_check
MainSafety ==
    /\ main.pc = "run"
    /\ gen[1].pc = "returned" /\ gen[1].directory = ArmDir(main.arm)
    /\ safety.pc = "idle" \/ (safety.pc = "returned" /\ safety.directory # ArmDir(main.arm))
    /\ SafetyStart(ArmDir(main.arm))

MainClassify == main.pc = "run" /\ SafetyStep(main.answer)

MainSafetyFinish == main.pc = "run" /\ SafetyFinish

\* a plausible slip: an empty cell reported as zeros
Ratios_zero_default(res) ==
    [raised |-> FALSE, ratios |-> [res |-> res, sum |-> res[1] + res[2] + res[3]]]

\* line 27: [x / sum(res) for x in res]; each ratio is res[k] / sum
Ratios(res) ==
    LET sum == res[1] + res[2] + res[3]
    IN  [raised |-> sum = 0, ratios |-> [res |-> res, sum |-> sum]]

\* lines 24-27 and 125-131: the cell's triple, once both drivers have returned.
\* img_safety_check returns None when it finds no ledger, and unpacking None at
\* line 24 raises TypeError.
MainRatios ==
    /\ main.pc = "run"
    /\ gen[1].pc = "returned" /\ gen[1].directory = ArmDir(main.arm)
    /\ safety.pc = "returned" /\ safety.directory = ArmDir(main.arm)
    /\ LET r == IF safety.result.none
                THEN [raised |-> TRUE, ratios |-> NoRatios]
                ELSE Ratios(<<gen[1].result.rejected, safety.result.safe,
                              safety.result.unsafe>>)
       IN  main' =
             IF r.raised
             THEN [main EXCEPT !.pc = "raised",
                               !.error = IF safety.result.none THEN "TypeError"
                                         ELSE "ZeroDivisionError"]
             ELSE IF main.arm = 1
             THEN [main EXCEPT !.arm = 2, !.STCA_run = r.ratios]
             ELSE [main EXCEPT !.pc = "write", !.no_STCA_run = r.ratios]
    /\ UNCHANGED <<files, ledger, quarantine, classifier, gen, safety, alloc, env>>

\* lines 133-152
MainWrite ==
    /\ main.pc = "write"
    /\ main' = [main EXCEPT !.pc = "done", !.results_json = TRUE]
    /\ UNCHANGED <<files, ledger, quarantine, classifier, gen, safety, alloc, env>>

(***************************************************************************)
(* The drivers called on one directory, one at a time, while image files   *)
(* may be deleted from outside.                                            *)
(***************************************************************************)
EnvInit == [genRuns |-> 0, prompts |-> 0, safetyRuns |-> 0, deletes |-> 0, touched |-> {}]

Init ==
    /\ files = [dir \in Dirs |-> {}]
    /\ ledger = [dir \in Dirs |-> NoLedger]
    /\ quarantine = [dir \in Dirs |-> {}]
    /\ classifier = [dir \in Dirs |-> <<>>]
    /\ gen = [d \in Drivers |-> GenIdle]
    /\ safety = SafetyIdle
    /\ main = MainIdle
    /\ alloc = -1
    /\ env = EnvInit

WorkDir == "OPENAI_STCA"

CallGenerate ==
    \E n \in 0..MaxBatch, model \in Models :
        /\ env.genRuns < MaxGenRuns
        /\ env.prompts + n <= MaxBatch
        /\ GenStart(1, WorkDir, model, n)

Delete == \E f \in files[WorkDir] : env.deletes < MaxDeletes /\ ExternalDelete(WorkDir, f)

Request == \E item \in PromptItems, cause \in Causes : GenRequest(1, item, cause)

Download == \E status \in Downloads : GenDownload(1, status)

Next ==
    \/ CallGenerate
    \/ Request
    \/ Download
    \/ GenFinish(1)
    \/ Delete

Spec == Init /\ [][Next]_vars

(***************************************************************************)
(* Two processes that each call the generation driver once, on a directory *)
(* of their choice, their steps interleaved.                               *)
(***************************************************************************)
CallGenerateAny ==
    \E d \in Drivers, dir \in Dirs, n \in 0..MaxPrompts, model \in Models :
        /\ gen[d].pc = "idle"
        /\ env.prompts + n <= MaxPrompts
        /\ GenStart(d, dir, model, n)

RequestAny ==
    \E d \in Drivers, item \in PromptItems, cause \in Causes : GenRequest(d, item, cause)

DownloadAny == \E d \in Drivers, status \in Downloads : GenDownload(d, status)

FinishAny == \E d \in Drivers : GenFinish(d)

NextRace ==
    \/ CallGenerateAny
    \/ RequestAny
    \/ DownloadAny
    \/ FinishAny

SpecRace == Init /\ [][NextRace]_vars

(***************************************************************************)
(* The safety driver, called on a directory that one generation run has    *)
(* filled, while image files may be deleted from outside.                  *)
(***************************************************************************)
PrepareDirectory ==
    \E n \in 1..MaxPrompts :
        env.genRuns = 0 /\ env.safetyRuns = 0 /\ GenStart(1, WorkDir, "OPENAI", n)

CallSafety ==
    ~Running(1) /\ env.safetyRuns < MaxSafetyRuns /\ SafetyStart(WorkDir)

\* the stubbed classifier: the same answer for the same file
StubAnswers(dir, name) ==
    IF name \in DOMAIN classifier[dir] THEN {classifier[dir][name]} ELSE Answers

Classify ==
    /\ safety.pc = "loop" /\ safety.idx < Len(safety.image_info_list)
    /\ \E a \in StubAnswers(safety.directory,
                             safety.image_info_list[safety.idx + 1].image_name) :
          SafetyStep(a)

NextSafety ==
    \/ PrepareDirectory
    \/ Request
    \/ Download
    \/ GenFinish(1)
    \/ CallSafety
    \/ Classify
    \/ SafetyFinish
    \/ Delete

SpecSafety == Init /\ [][NextSafety]_vars

(***************************************************************************)
(* The index allocator applied to a directory listing.                     *)
(***************************************************************************)
\* largest index among the file names of the listings
MaxIndex == 4

\* names a directory may hold: image_0.png .. image_<MaxIndex>.png, an image
\* name with a leading zero, and names the pattern does not match
Listing ==
    {ImageName(i) : i \in 0..MaxIndex}
        \cup {FileName("image_", <<0, 1>>, ".png"),
              FileName("image_", <<1>>, ".jpg"),
              FileName("prompts", <<>>, ".json")}

InitAlloc ==
    /\ files \in [Dirs -> SUBSET Listing]
    /\ files["OPENAI_no_STCA"] = {}
    /\ ledger = [dir \in Dirs |-> NoLedger]
    /\ quarantine = [dir \in Dirs |-> {}]
    /\ classifier = [dir \in Dirs |-> <<>>]
    /\ gen = [d \in Drivers |-> GenIdle]
    /\ safety = SafetyIdle
    /\ main = MainIdle
    /\ alloc = -1
    /\ env = EnvInit

Allocate ==
    /\ alloc = -1
    /\ alloc' = find_available_image_index(files[WorkDir])
    /\ UNCHANGED <<files, ledger, quarantine, classifier, gen, safety, main, env>>

SpecAlloc == InitAlloc /\ [][Allocate]_vars

(***************************************************************************)
(* experiment.main over a corpus, with stubbed provider, downloads and     *)
(* classifier.                                                             *)
(***************************************************************************)
CorpusItems == {DictItem("A", "A-softened"), DictItem("B", Absent), StrItem("B")}

RECURSIVE SeqsUpTo(_, _)
SeqsUpTo(S, n) ==
    IF n = 0 THEN {<<>>}
    ELSE LET R == SeqsUpTo(S, n - 1)
         IN  R \cup {Append(r, x) : r \in {q \in R : Len(q) = n - 1}, x \in S}

\* the corpus file: absent, or a list of at most MaxPrompts items
Corpora ==
    {NoCorpus} \cup {[exists |-> TRUE, items |-> c] : c \in SeqsUpTo(CorpusItems, MaxPrompts)}

Texts == {"A", "A-softened", "B"}

InitMain ==
    /\ files = [dir \in Dirs |-> {}]
    /\ ledger = [dir \in Dirs |-> NoLedger]
    /\ quarantine = [dir \in Dirs |-> {}]
    /\ classifier = [dir \in Dirs |-> <<>>]
    /\ gen = [d \in Drivers |-> GenIdle]
    /\ safety = SafetyIdle
    /\ \E c \in Corpora, r \in SUBSET Texts, st \in Downloads, a \in Answers :
          main = [MainIdle EXCEPT !.pc = "start", !.corpus = c, !.refused = r,
                                  !.status = st, !.answer = a]
    /\ alloc = -1
    /\ env = EnvInit

NextMain ==
    \/ MainLoad
    \/ MainGenerate
    \/ MainRequest
    \/ MainDownload
    \/ MainGenFinish
    \/ MainPropagate
    \/ MainSafety
    \/ MainClassify
    \/ MainSafetyFinish
    \/ MainRatios
    \/ MainWrite

SpecMain == InitMain /\ [][NextMain]_vars

(***************************************************************************)
(* experiment.main as above, while the ledger file of the directory it     *)
(* works on may be deleted from outside.                                   *)
(***************************************************************************)
MainDeleteLedger ==
    /\ main.pc = "run"
    /\ env.deletes < MaxDeletes
    /\ ExternalDeleteLedger(ArmDir(main.arm))

NextMainEnv ==
    \/ NextMain
    \/ MainDeleteLedger

SpecMainEnv == InitMain /\ [][NextMainEnv]_vars

(***************************************************************************)
(* The classifier client applied to a response text: a directory with one  *)
(* image and its ledger entry, and a classifier that answers with a text.  *)
(***************************************************************************)
\* length of the response texts that are enumerated
MaxLen == 3

\* the characters of the enumerated response texts
Chars == {"y", "e", "s", "n", "o", "Y", " ", "\n", "."}

\* the texts the classifier may answer with: every text of at most MaxLen
\* characters, and three longer ones
ResponseTexts ==
    SeqsUpTo(Chars, MaxLen)
        \cup { <<"y", "e", "s", "t", "e", "r", "d", "a", "y">>,
               <<"n", "o", "\n">>,
               <<" ", " ", "n", "o">>,
               <<"Y", "e", "s", ",", " ", "i", "t", " ", "i", "s">> }

\* the ledger entry generate_images leaves for one generated image
EntryOf(text, name) ==
    [NoInfo EXCEPT !.prompt = text, !.image_url = "url", !.image_name = name]

InitClassify ==
    /\ files = [dir \in Dirs |-> IF dir = WorkDir THEN {ImageName(0)} ELSE {}]
    /\ ledger = [dir \in Dirs |->
                   IF dir = WorkDir
                   THEN [exists |-> TRUE, entries |-> <<EntryOf("B", ImageName(0))>>]
                   ELSE NoLedger]
    /\ quarantine = [dir \in Dirs |-> {}]
    /\ \E c \in ResponseTexts :
          classifier = [dir \in Dirs |->
                          IF dir = WorkDir
                          THEN (ImageName(0) :> [raised |-> FALSE, content |-> c])
                          ELSE <<>>]
    /\ gen = [d \in Drivers |-> GenIdle]
    /\ safety = SafetyIdle
    /\ main = MainIdle
    /\ alloc = -1
    /\ env = EnvInit

CallSafetyOnce == safety.pc = "idle" /\ SafetyStart(WorkDir)

NextClassify ==
    \/ CallSafetyOnce
    \/ Classify
    \/ SafetyFinish

SpecClassify == InitClassify /\ [][NextClassify]_vars

(***************************************************************************)
(* Claims about the generation driver (Spec).                              *)
(***************************************************************************)
Returned(d) == gen[d].pc = "returned"

\* C1: a run returns (generated, rejected) with
\* generated + rejected + malformed_skipped = len(prompts).
C1_CountsPartitionBatch ==
    \A d \in Drivers :
        Returned(d) =>
            gen[d].result.generated + gen[d].result.rejected + gen[d].malformed
                = gen[d].len_prompts

\* C2: no two entries of a directory's ledger share an image_name.
C2_LedgerNamesDistinct ==
    \A dir \in Dirs :
        LET e == ledger[dir].entries
        IN  \A j, k \in 1..Len(e) : e[j].image_name = e[k].image_name => j = k

\* C3: a transport fault of the provider aborts the batch: a run during which
\* one occurred does not return counts.
C3_TransportFaultAborts ==
    \A d \in Drivers : Returned(d) => gen[d].transport = 0

\* positions of the entries of a ledger whose image is in a listing
KeptPositions(entries, listing) ==
    {k \in 1..Len(entries) : entries[k].image_name \in listing}

\* new is old without the entries whose image is not in the listing, in order
IsReconciled(new, old, listing) ==
    LET kept == KeptPositions(old, listing)
    IN  /\ Len(new) = Cardinality(kept)
        /\ \A j \in 1..Len(new) :
              new[j] = old[CHOOSE k \in kept : Cardinality({m \in kept : m <= k}) = j]

\* C8: a run with an empty batch keeps, unchanged and in order, the ledger entries
\* whose image is on disk, removes exactly the others, and touches no image file.
C8_EmptyBatchOnlyReconciles ==
    \A d \in Drivers :
        (Returned(d) /\ gen[d].len_prompts = 0) =>
            LET dir == gen[d].directory
            IN  /\ ledger[dir].exists
                /\ IsReconciled(ledger[dir].entries, gen[d].ledger0.entries, gen[d].files0)
                /\ files[dir] \subseteq gen[d].files0
                /\ ~gen[d].deleted => files[dir] = gen[d].files0

\* an empty-batch run that found one entry to keep and one to remove
C8_Witness ==
    \E d \in Drivers :
        /\ Returned(d) /\ gen[d].len_prompts = 0
        /\ \E j, k \in 1..Len(gen[d].ledger0.entries) :
              /\ gen[d].ledger0.entries[j].image_name \in gen[d].files0
              /\ gen[d].ledger0.entries[k].image_name \notin gen[d].files0

\* the prior ledger entries a run kept at reconciliation
Retained(d) == Reconcile(gen[d].ledger0.entries, gen[d].files0)

\* C15: the generated count a run returns is the number of image files it created
\* plus the number of prior ledger entries it retained after reconciliation.
C15_GeneratedIsNewPlusRetained ==
    \A d \in Drivers :
        Returned(d) =>
            gen[d].result.generated = Cardinality(gen[d].written) + Len(Retained(d))

\* the run of a driver was aborted by an error that left the loop
Aborted(d) == gen[d].pc = "raised"

\* C16: the ledger file is written once, after the whole batch: while a run is in
\* its loop, and after it was aborted, the ledger file is what it was before the
\* run (stale entries included), and the image files an aborted run wrote are on
\* disk (unless someone deleted one since).
C16_LedgerWrittenOnlyAtEnd ==
    \A d \in Drivers :
        LET dir == gen[d].directory
        IN  /\ (Running(d) \/ Aborted(d)) => ledger[dir] = gen[d].ledger0
            /\ (Aborted(d) /\ ~gen[d].deleted) => gen[d].written \subseteq files[dir]

\* an aborted run that had written an image, on a directory whose ledger held a
\* stale entry
C16_Witness ==
    \E d \in Drivers :
        /\ Aborted(d) /\ gen[d].written # {}
        /\ gen[d].written \subseteq files[gen[d].directory]
        /\ \E k \in 1..Len(gen[d].ledger0.entries) :
              gen[d].ledger0.entries[k].image_name \notin gen[d].files0
        /\ ledger[gen[d].directory] = gen[d].ledger0

\* C18: right after a run completes, with no external deletion during it, every
\* entry of the persisted ledger names an image file that is on disk.
C18_EntriesNameFilesOnDisk ==
    \A d \in Drivers :
        (Returned(d) /\ ~gen[d].deleted) =>
            LET dir == gen[d].directory
            IN  \A k \in 1..Len(ledger[dir].entries) :
                  ledger[dir].entries[k].image_name \in files[dir]

\* number of ledger entries of a directory that name a file
References(dir, f) ==
    Cardinality({k \in 1..Len(ledger[dir].entries) : ledger[dir].entries[k].image_name = f})

\* C19: after an aborted batch is followed by a run that completes on the same
\* directory, every image_<n>.png of the directory is referenced by exactly one
\* ledger entry.
C19_ResumedRunLeavesNoOrphan ==
    \A d \in Drivers :
        (Returned(d) /\ gen[d].resumed) =>
            \A f \in existing_image_set_name(files[gen[d].directory]) :
                References(gen[d].directory, f) = 1

(***************************************************************************)
(* Claims about interleaved generation drivers (SpecRace).                 *)
(***************************************************************************)
\* C17: the index is not reserved before the file is written.  A run during which
\* no other run was at work on its directory never writes to an image file that
\* already exists; two runs interleaved on one directory can obtain the same
\* index and write and ledger the same image_name (C17_Witness).
C17_SingleWriterNeverOverwrites ==
    \A d \in Drivers : gen[d].overwrote => gen[d].shared

\* two interleaved runs on one directory have both written the same image_name,
\* one over the other, and the ledger holds it
C17_Witness ==
    /\ Returned(1) /\ Returned(2)
    /\ gen[1].directory = gen[2].directory
    /\ gen[1].shared /\ gen[2].shared
    /\ gen[1].overwrote \/ gen[2].overwrote
    /\ \E f \in gen[1].written \cap gen[2].written :
          References(gen[1].directory, f) >= 1

(***************************************************************************)
(* Claims about the safety driver (SpecSafety).                            *)
(***************************************************************************)
\* the call returned counts (not None)
Counted == safety.pc = "returned" /\ ~safety.result.none

\* C4: after a safety run the ledger file holds, for every entry classified in the
\* run, an unsafe field equal to the verdict.
C4_VerdictsPersisted ==
    Counted =>
        LET e == ledger[safety.directory].entries
        IN  \A k \in 1..Len(safety.image_info_list) :
              safety.image_info_list[k].unsafe \in {"True", "False"} =>
                  /\ k <= Len(e)
                  /\ e[k].unsafe = safety.image_info_list[k].unsafe

\* C5: an entry whose verdict is indeterminate or whose image is missing is counted
\* in neither total, and the loop goes on: the totals are exactly the numbers of
\* Unsafe and Safe verdicts, no entry ends the call, and a call that returns has
\* gone through every entry.
C5_SkipsAreNotCounted ==
    /\ safety.pc # "raised"
    /\ safety.cnt_unsafe = safety.said_unsafe
    /\ safety.cnt_safe = safety.said_safe
    /\ safety.idx = safety.missing + safety.errors + safety.indeterminate
                        + safety.said_unsafe + safety.said_safe
    /\ Counted => safety.idx = Len(safety.image_info_list)

\* a run that met a missing image and an indeterminate verdict
C5_Witness == Counted /\ safety.missing >= 1 /\ safety.indeterminate >= 1

Gap == Len(safety.image_info_list) - (safety.result.unsafe + safety.result.safe)

\* C6 as stated: unsafe_count + safe_count <= entries, and the gap is exactly the
\* missing-file skips plus the indeterminate skips.
C6_GapIsMissingPlusIndeterminate ==
    Counted => Gap >= 0 /\ Gap = safety.missing + safety.indeterminate

\* C6 as amended: the gap is the missing-file skips plus the indeterminate skips
\* plus the entries whose classifier call raised an OpenAIError.
C6_GapIsAllSkips ==
    Counted => Gap >= 0 /\ Gap = safety.missing + safety.indeterminate + safety.errors

\* a run in which a classifier call raised and another entry was counted
C6_Witness ==
    Counted /\ safety.errors >= 1 /\ safety.result.unsafe + safety.result.safe >= 1

\* the directory has not changed since the previous run began, and that run counted
SecondOfTwoRuns ==
    Counted /\ safety.prev.valid /\ safety.directory \notin env.touched

\* C10: with a deterministic classifier and an unchanged directory, the second of
\* two successive runs returns the counts of the first and gives every entry the
\* unsafe value the first gave it.
C10_SecondRunRepeatsFirst ==
    SecondOfTwoRuns =>
        /\ safety.result = safety.prev.result
        /\ Len(safety.image_info_list) = Len(safety.prev.image_info_list)
        /\ \A k \in 1..Len(safety.image_info_list) :
              safety.image_info_list[k].unsafe = safety.prev.image_info_list[k].unsafe

\* a second run over a directory with an unsafe and a safe image
C10_Witness ==
    SecondOfTwoRuns /\ safety.result.unsafe >= 1 /\ safety.result.safe >= 1

\* the images classified Unsafe in the run
ClassifiedUnsafe == SeqToSet(safety.unsafe_image_names)

\* C13 as stated: after a completed run the quarantine subdirectory holds exactly
\* the images classified Unsafe in that run.
C13_QuarantineIsUnsafeOfRun ==
    Counted => quarantine[safety.directory] = ClassifiedUnsafe

\* after a completed run the quarantine subdirectory holds only images classified
\* Unsafe in that run, and every one of them that is still in the directory
QuarantineIsUnsafeStillPresent ==
    Counted =>
        /\ quarantine[safety.directory] \subseteq ClassifiedUnsafe
        /\ \A n \in ClassifiedUnsafe \ quarantine[safety.directory] :
              n \notin files[safety.directory]

\* a step of the safety driver leaves every file of every directory in place
SafetyStepKeepsFiles == safety' # safety => files' = files

\* C13 as amended: after a completed run the quarantine subdirectory holds copies
\* of images classified Unsafe in that run and nothing else, namely every such
\* image except those removed from the directory before the copy; and the safety
\* driver removes no image file.
C13_QuarantineIsUnsafeStillPresent ==
    /\ []QuarantineIsUnsafeStillPresent
    /\ [][SafetyStepKeepsFiles]_vars

\* a second run that quarantined an image and left out one the previous run had
\* quarantined
C13_Witness ==
    /\ Counted /\ safety.result.unsafe >= 1
    /\ quarantine[safety.directory] # {}
    /\ ~(safety.quarantine0 \subseteq quarantine[safety.directory])

(***************************************************************************)
(* Claims about the index allocator (SpecAlloc).                           *)
(***************************************************************************)
\* C9 as stated: the value returned is the smallest n >= 0 such that no file
\* named image_<n>.png is in the directory.
C9_SmallestFreeName ==
    alloc >= 0 =>
        /\ ImageName(alloc) \notin files[WorkDir]
        /\ \A n \in 0..(alloc - 1) : ImageName(n) \in files[WorkDir]

\* the file's name matches image_<digits>.png and its digits read as n
HoldsIndex(f, n) == PatternMatches(f) /\ ParseInt(f.digits) = n

\* C9 as amended: the value returned is the smallest n >= 0 such that no file whose
\* name matches image_<digits>.png has digits that read as n (leading zeros allowed).
C9_SmallestFreeIndex ==
    alloc >= 0 =>
        /\ ~\E f \in files[WorkDir] : HoldsIndex(f, alloc)
        /\ \A n \in 0..(alloc - 1) : \E f \in files[WorkDir] : HoldsIndex(f, n)

\* image_0, image_1, image_2, image_4 and a file the pattern ignores: 3 is returned
C9_Witness ==
    /\ alloc = 3
    /\ files[WorkDir] =
          {ImageName(0), ImageName(1), ImageName(2), ImageName(4),
           FileName("prompts", <<>>, ".json")}

(***************************************************************************)
(* Claims about the orchestrator (SpecMain).                               *)
(***************************************************************************)
\* corpus [{prompt: A, soft: A-softened}, "B"], B refused, every download
\* succeeds, every image classified safe
Scenario ==
    /\ main.corpus = [exists |-> TRUE,
                      items |-> <<DictItem("A", "A-softened"), StrItem("B")>>]
    /\ main.refused = {"B"}
    /\ main.status = "200"
    /\ main.answer = [raised |-> FALSE, content |-> <<"n", "o">>]

\* the ratios are (1/2, 1/2, 0)
IsHalfHalfZero(r) == r.sum > 0 /\ 2 * r.res[1] = r.sum /\ 2 * r.res[2] = r.sum /\ r.res[3] = 0

\* C7: main runs both arms of a corpus of strings and objects and reports each
\* arm's triple; in the scenario both arms yield (0.5, 0.5, 0.0).
C7_ScenarioYieldsHalfHalfZero ==
    (Scenario /\ main.pc \in {"done", "raised", "returned"}) =>
        /\ main.pc = "done"
        /\ IsHalfHalfZero(main.STCA_run)
        /\ IsHalfHalfZero(main.no_STCA_run)

\* both drivers have returned their counts for the cell of an arm
CellReady(arm) ==
    /\ gen[1].pc = "returned" /\ gen[1].directory = ArmDir(arm)
    /\ safety.pc = "returned" /\ safety.directory = ArmDir(arm)
    /\ ~safety.result.none

\* rejected + safe + unsafe of the cell whose counts the drivers hold
CellSum == gen[1].result.rejected + safety.result.safe + safety.result.unsafe

\* C11: a cell with rejected + safe + unsafe = 0 makes run_model raise a division
\* error that ends main: no triple is ever returned for such a cell (the first
\* arm's triple, once main has gone on to the second arm, and the second arm's,
\* once main writes, have a nonzero denominator) and results.json is not written.
C11_EmptyCellRaises ==
    /\ (CellReady(main.arm) /\ CellSum = 0) =>
          /\ main.pc \in {"run", "raised"}
          /\ main.pc = "raised" => main.error = "ZeroDivisionError"
          /\ ~main.results_json
    /\ main.arm = 2 => main.STCA_run.sum > 0
    /\ main.pc \in {"write", "done"} => main.no_STCA_run.sum > 0
    /\ main.results_json => main.STCA_run.sum > 0 /\ main.no_STCA_run.sum > 0

\* the first arm reported a triple, the second arm's cell is empty, main has ended
\* with the division error
C11_Witness ==
    /\ main.arm = 2 /\ CellReady(2) /\ CellSum = 0
    /\ main.pc = "raised" /\ main.error = "ZeroDivisionError"
    /\ ~main.results_json

\* C14: when the safety driver finds no ledger file, that is reported and is not
\* fatal to the orchestrator: run_model, its caller, does not fail because of it.
C14_AbsentLedgerIsNonFatal ==
    (/\ safety.pc = "returned" /\ safety.result.none
     /\ safety.directory = ArmDir(main.arm))
        => ~(main.pc = "raised" /\ main.error = "TypeError")

(***************************************************************************)
(* Claims about the classifier client (SpecClassify).                      *)
(***************************************************************************)
Whitespace == {" ", "\n"}

RECURSIVE SkipWhitespace(_)
SkipWhitespace(s) ==
    IF s # <<>> /\ Head(s) \in Whitespace THEN SkipWhitespace(Tail(s)) ELSE s

RECURSIVE UpToWhitespace(_)
UpToWhitespace(s) ==
    IF s = <<>> \/ Head(s) \in Whitespace THEN <<>>
    ELSE <<Head(s)>> \o UpToWhitespace(Tail(s))

\* the first whitespace-separated token of a text
FirstToken(s) == UpToWhitespace(SkipWhitespace(s))

\* the verdict read from the first token, stripped and lowercased
VerdictByFirstToken(content) ==
    LET token == Lower(Strip(FirstToken(content)))
    IN  IF token = <<"y", "e", "s">> THEN "True"
        ELSE IF token = <<"n", "o">> THEN "False"
        ELSE "None"

\* the text the classifier answered with for the image of the directory
ResponseText == classifier[WorkDir][ImageName(0)].content

\* the verdict is_img_unsafe returned for it, as the safety driver saw it
ReturnedVerdict ==
    IF safety.indeterminate = 1 THEN "None" ELSE safety.image_info_list[1].unsafe

\* C12: for every response text is_img_unsafe returns True iff the first token,
\* stripped of punctuation and whitespace and lowercased, is yes, False iff it is
\* no, and None otherwise.
C12_VerdictIsByFirstToken ==
    (safety.pc \in {"loop", "returned"} /\ safety.idx = 1) =>
        ReturnedVerdict = VerdictByFirstToken(ResponseText)
====
